---- MODULE Spec2Model ----
(***************************************************************************)
(* Model of src/app.py: the Streamlit security-assessment application.     *)
(*                                                                         *)
(*   Spec      one browser session driving main(): healthz, plain re-runs, *)
(*             the "Perform Security Assessment" button, "Generate Full    *)
(*             Report" and "Back to Assessment".                           *)
(*   SpecLoad  two sessions running load_docx concurrently in the same     *)
(*             process (same working directory, same temp/ directory).     *)
(*   SpecStrip generate_report_narrative applied to every raw model        *)
(*             response over a small alphabet.                             *)
(*                                                                         *)
(* External calls (file system, parser, LLM client, pandas, markdown,      *)
(* xhtml2pdf) either succeed or fail; which one happens is an input of the *)
(* action that makes the call.                                             *)
(***************************************************************************)
EXTENDS Integers, Sequences, FiniteSets, TLC

VARIABLES
    \* st.session_state of one session
    page, original_text, risk_data, full_report_md,
    \* process environment: GOOGLE_API_KEY is set
    api_key,
    \* the temp/ directory: file name -> file
    temp,
    \* what the last script run did: page rendered, elements written to the
    \* page, external steps invoked, whether an exception left main()
    rendered, shown, calls, escaped,
    \* what the last analyze_risk call did
    analysis,
    \* history: generate_report_narrative invocations since risk_data was last
    \* assigned; the text full_report_md was generated from
    narr_calls, report_text,
    \* load_docx, one activation per session (SpecLoad)
    pc, upload, handle, exc, data, read_bytes, clobbered, loads,
    \* generate_report_narrative on its own (SpecStrip)
    response, narrative, narr_pc

ui_vars   == <<page, original_text, risk_data, full_report_md, api_key,
               rendered, shown, calls, escaped, analysis, narr_calls, report_text>>
load_vars == <<pc, upload, handle, exc, data, read_bytes, clobbered, loads>>
narr_vars == <<response, narrative, narr_pc>>
vars      == <<ui_vars, temp, load_vars, narr_vars>>

----------------------------------------------------------------------------
(* Bounds *)

\* longest raw model response, in tokens
MaxLen == 7
\* generate_report_narrative invocations counted per risk_data snapshot
\* (the counter saturates here)
MaxNarrCalls == 2
\* load_docx activations per session in SpecLoad
MaxLoads == 1

----------------------------------------------------------------------------
(* Strings: a response is a sequence of tokens *)

\* one backtick character
BT == "BACKTICK"
MD == "markdown"
SP == " "
X  == "x"
Alphabet == {BT, MD, SP, X}

Responses == UNION {[1..n -> Alphabet] : n \in 0..MaxLen}

Fence         == <<BT, BT, BT>>
FenceMarkdown == <<BT, BT, BT, MD>>

\* s[i..] starts with pat
StartsAt(s, i, pat) ==
    /\ i + Len(pat) - 1 <= Len(s)
    /\ \A k \in 1..Len(pat) : s[i + k - 1] = pat[k]

\* str.replace(pat, ""): non-overlapping occurrences, scanned left to right
RECURSIVE ReplaceFrom(_, _, _)
ReplaceFrom(s, i, pat) ==
    IF i > Len(s) THEN <<>>
    ELSE IF StartsAt(s, i, pat) THEN ReplaceFrom(s, i + Len(pat), pat)
    ELSE <<s[i]>> \o ReplaceFrom(s, i + 1, pat)

Replace(s, pat) == ReplaceFrom(s, 1, pat)

\* str.strip(): leading and trailing whitespace removed
RECURSIVE LStrip(_)
LStrip(s) == IF s # <<>> /\ Head(s) = SP THEN LStrip(Tail(s)) ELSE s

RECURSIVE RStrip(_)
RStrip(s) ==
    IF s # <<>> /\ s[Len(s)] = SP THEN RStrip(SubSeq(s, 1, Len(s) - 1)) ELSE s

Strip(s) == LStrip(RStrip(s))

\* a variant that removes only the fence-plus-markdown opener
cleaned_response_opener_only(resp) == Strip(Replace(resp, FenceMarkdown))

\* line 175
cleaned_response(resp) == Strip(Replace(Replace(resp, FenceMarkdown), Fence))

\* line 180
ErrorNarrative == <<"Error generating report narrative.">>

\* three consecutive backticks somewhere in s
HasFence(s) == \E i \in 1..Len(s) : StartsAt(s, i, Fence)

\* generate_report_narrative: fault is "none", "client" (the constructor on
\* line 140, outside the try) or "call" (chain.invoke, inside the try)
NarrFaults == {"none", "client", "call"}

generate_report_narrative(resp, fault) ==
    IF fault = "client" THEN [raised |-> TRUE, value |-> <<>>, llm |-> FALSE]
    ELSE IF fault = "call" THEN [raised |-> FALSE, value |-> ErrorNarrative, llm |-> TRUE]
    ELSE [raised |-> FALSE, value |-> cleaned_response(resp), llm |-> TRUE]

----------------------------------------------------------------------------
(* Values *)

\* a key missing from st.session_state, and Python's None
Absent == "<absent>"
None   == "<None>"

\* uploaded documents: the declared name and the bytes
Names == {"a.docx", "b.docx"}
Bytes == {"docx:T1", "docx:T2", "docx:empty", "corrupt"}
Uploads == [name : Names, bytes : Bytes]

\* Docx2txtLoader.load() on the bytes of a file: a text, or an exception on
\* bytes that are no document (also a truncated or empty file)
Parse(b) ==
    IF b = "docx:T1" THEN [raised |-> FALSE, text |-> "T1"]
    ELSE IF b = "docx:T2" THEN [raised |-> FALSE, text |-> "T2"]
    ELSE IF b = "docx:empty" THEN [raised |-> FALSE, text |-> ""]
    ELSE [raised |-> TRUE, text |-> ""]

\* files of temp/: ino identifies the file created by one open()
NoFile == [exists |-> FALSE, ino |-> <<0, 0>>, bytes |-> ""]
File(ino, b) == [exists |-> TRUE, ino |-> ino, bytes |-> b]
EmptyTemp == [n \in Names |-> NoFile]

\* risk records and the JSON values the analysis chain can return
Rec(f, l) == [feature |-> f, level |-> l]
AbsentRisks == [kind |-> "absent", items |-> <<>>]
NoneRisks   == [kind |-> "none", items |-> <<>>]
List(items) == [kind |-> "list", items |-> items]
EmptyList   == List(<<>>)
R1          == List(<<Rec("Password Reset", "High")>>)
R2          == List(<<Rec("Login", "Medium"), Rec("Upload", "Low")>>)
\* a JSON object of scalars, such as {"error": "..."}
RDict       == [kind |-> "dict", items |-> <<>>]
RiskResults == {EmptyList, R1, R2, RDict}

\* raw narrative responses used in the session model
NarrResponses == {<<X>>, <<BT, BT, BT, MD, X, X, BT, BT, BT>>}

AbsentReport == [kind |-> "absent", narrative |-> <<>>, table |-> <<>>]
\* line 333: narrative, the heading, the table rendered from the records
Report(narr, items) == [kind |-> "str", narrative |-> narr, table |-> items]

\* Python truthiness (lines 268, 285, 321)
TruthyText(t)   == t \notin {Absent, None, ""}
TruthyRisks(rd) == (rd.kind = "list" /\ rd.items # <<>>) \/ rd.kind = "dict"

\* pd.DataFrame(risk_data) raises on a dict of scalars (lines 289, 329)
DataFrameRaises(rd) == rd.kind = "dict"

----------------------------------------------------------------------------
(* load_docx run by one session with nobody else in temp/ *)

LoadFaults == {"none", "open", "write", "loader", "load", "content"}

\* lines 57-82. open (63) and write (64) are before the try; the loader (69),
\* load (70) and data[0] (71) are inside it; the finally (76-80) removes the file
load_docx(fs, up, fault) ==
    LET p == up.name
        parsed == Parse(up.bytes)
    IN  IF fault = "open" THEN [temp |-> fs, raised |-> TRUE, content |-> ""]
        ELSE IF fault = "write"
        THEN [temp |-> [fs EXCEPT ![p] = File(<<1, 1>>, "partial")],
              raised |-> TRUE, content |-> ""]
        ELSE [temp |-> [fs EXCEPT ![p] = NoFile],
              raised |-> fault # "none" \/ parsed.raised,
              content |-> IF fault # "none" \/ parsed.raised THEN "" ELSE parsed.text]

----------------------------------------------------------------------------
(* analyze_risk *)

AnalyzeFaults == {"none", "client", "call", "parse"}

NotCalled == [status |-> "not_called", result |-> EmptyList, client |-> FALSE,
              invoked |-> FALSE, failed |-> FALSE]

\* lines 84-130: no key -> [] (94-97); the client constructor (99) is outside
\* the try; chain.invoke (124) with the JSON parse is inside it
analyze_risk(key, fault, result) ==
    IF ~key
    THEN [status |-> "returned", result |-> EmptyList, client |-> FALSE,
          invoked |-> FALSE, failed |-> TRUE]
    ELSE IF fault = "client"
    THEN [status |-> "raised", result |-> EmptyList, client |-> TRUE,
          invoked |-> FALSE, failed |-> TRUE]
    ELSE IF fault \in {"call", "parse"}
    THEN [status |-> "returned", result |-> EmptyList, client |-> TRUE,
          invoked |-> TRUE, failed |-> TRUE]
    ELSE [status |-> "returned", result |-> result, client |-> TRUE,
          invoked |-> TRUE, failed |-> FALSE]

----------------------------------------------------------------------------
(* The pages *)

Min(a, b) == IF a < b THEN a ELSE b

\* lines 285-309: the results block of the home page for risk_data rd
home_results(rd) ==
    IF ~TruthyRisks(rd) THEN [shown |-> {}, escaped |-> FALSE]
    ELSE IF DataFrameRaises(rd) THEN [shown |-> {"success"}, escaped |-> TRUE]
    ELSE [shown |-> {"success", "table", "csv", "generate_button"}, escaped |-> FALSE]

\* lines 249-257 and 311-316 around the results block
home_page(extra, rd) ==
    LET res == home_results(rd)
    IN  [shown |-> {"header", "uploader", "assess_button"} \cup extra \cup res.shown
                   \cup (IF res.escaped THEN {} ELSE {"footer"}),
         escaped |-> res.escaped]

TableFaults  == {"none", "raise"}
ExportFaults == {"none", "html", "pdf_raise", "pdf_err"}

\* lines 350-384: markdown.markdown, convert_to_pdf, the PDF button or the error
report_export(efault) ==
    IF efault = "html"
    THEN [shown |-> {}, calls |-> {"markdown"}, escaped |-> TRUE]
    ELSE IF efault = "pdf_raise"
    THEN [shown |-> {}, calls |-> {"markdown", "convert_to_pdf"}, escaped |-> TRUE]
    ELSE IF efault = "pdf_err"
    THEN [shown |-> {"err_pdf"}, calls |-> {"markdown", "convert_to_pdf"}, escaped |-> FALSE]
    ELSE [shown |-> {"download_pdf"}, calls |-> {"markdown", "convert_to_pdf"}, escaped |-> FALSE]

\* lines 335-384: display of a stored report, then the download buttons
report_display(frm, efault, calls0, invoked, assembled) ==
    LET ex == report_export(efault)
    IN  [frm |-> frm,
         shown |-> {"back_button", "report", "download_md"} \cup ex.shown,
         calls |-> calls0 \cup ex.calls,
         escaped |-> ex.escaped,
         invoked |-> invoked, assembled |-> assembled]

\* lines 318-386
render_report_page(ot, rd, frm, nfault, resp, tfault, efault) ==
    IF ~(TruthyRisks(rd) /\ TruthyText(ot))
    THEN [frm |-> frm, shown |-> {"back_button", "err_no_data"}, calls |-> {},
          escaped |-> FALSE, invoked |-> FALSE, assembled |-> FALSE]
    ELSE IF frm.kind # "absent"
    THEN report_display(frm, efault, {}, FALSE, FALSE)
    ELSE LET n == generate_report_narrative(resp, nfault)
             ncalls == {"generate_report_narrative", "narr_client"}
                       \cup (IF n.llm THEN {"narr_invoke"} ELSE {})
         IN  IF n.raised
             THEN [frm |-> frm, shown |-> {"back_button"}, calls |-> ncalls,
                   escaped |-> TRUE, invoked |-> TRUE, assembled |-> FALSE]
             ELSE IF DataFrameRaises(rd) \/ tfault = "raise"
             THEN [frm |-> frm, shown |-> {"back_button"},
                   calls |-> ncalls \cup {"to_markdown"},
                   escaped |-> TRUE, invoked |-> TRUE, assembled |-> FALSE]
             ELSE report_display(Report(n.value, rd.items), efault,
                                 ncalls \cup {"to_markdown"}, TRUE, TRUE)

----------------------------------------------------------------------------
(* One session: the script runs *)

Idle == /\ UNCHANGED load_vars
        /\ UNCHANGED narr_vars

\* lines 235-240
InitPage(p)  == IF p = Absent THEN "home" ELSE p
InitRisks(r) == IF r.kind = "absent" THEN NoneRisks ELSE r
InitText(t)  == IF t = Absent THEN None ELSE t

\* a run that renders the home page with no button pressed
HomeRun(p) ==
    LET h == home_page({}, InitRisks(risk_data))
    IN  /\ page' = p
        /\ risk_data' = InitRisks(risk_data)
        /\ original_text' = InitText(original_text)
        /\ rendered' = "home"
        /\ shown' = h.shown
        /\ calls' = {}
        /\ escaped' = h.escaped
        /\ analysis' = NotCalled
        /\ UNCHANGED <<full_report_md, api_key, temp, narr_calls, report_text>>

\* a run that renders the report page
ReportRun ==
    \E nfault \in NarrFaults, resp \in NarrResponses,
       tfault \in TableFaults, efault \in ExportFaults :
        LET r == render_report_page(original_text, risk_data, full_report_md,
                                    nfault, resp, tfault, efault)
        IN  /\ page' = "report"
            /\ full_report_md' = r.frm
            /\ rendered' = "report"
            /\ shown' = r.shown
            /\ calls' = r.calls
            /\ escaped' = r.escaped
            /\ analysis' = NotCalled
            /\ narr_calls' = IF r.invoked THEN Min(narr_calls + 1, MaxNarrCalls)
                             ELSE narr_calls
            /\ report_text' = IF r.assembled THEN original_text ELSE report_text
            /\ UNCHANGED <<original_text, risk_data, api_key, temp>>

\* a variant of the health check placed after the session-state defaults
HealthzAfterInit ==
    /\ rendered' = "healthz"
    /\ shown' = {"OK"}
    /\ calls' = {}
    /\ escaped' = FALSE
    /\ analysis' = NotCalled
    /\ page' = InitPage(page)
    /\ risk_data' = InitRisks(risk_data)
    /\ original_text' = InitText(original_text)
    /\ UNCHANGED <<full_report_md, api_key, temp, narr_calls, report_text>>
    /\ Idle

\* lines 187-190: a request with the healthz query parameter
Healthz ==
    /\ rendered' = "healthz"
    /\ shown' = {"OK"}
    /\ calls' = {}
    /\ escaped' = FALSE
    /\ analysis' = NotCalled
    /\ UNCHANGED <<page, original_text, risk_data, full_report_md, api_key, temp,
                   narr_calls, report_text>>
    /\ Idle

\* lines 184-246: a run with no widget pressed (first load, a download click,
\* a browser refresh of the same session)
Rerun ==
    /\ IF InitPage(page) = "home" THEN HomeRun("home") ELSE ReportRun
    /\ Idle

\* lines 259, 280-282: the assessment button with no file uploaded
AssessNoFile ==
    /\ page = "home"
    /\ LET h == home_page({"warn_upload_first"}, risk_data)
       IN  /\ shown' = h.shown
           /\ escaped' = h.escaped
    /\ rendered' = "home"
    /\ calls' = {}
    /\ analysis' = NotCalled
    /\ UNCHANGED <<page, original_text, risk_data, full_report_md, api_key, temp,
                   narr_calls, report_text>>
    /\ Idle

\* lines 266-279, then 284-316: what the assessment leaves behind, given what
\* load_docx (l) and analyze_risk (a, NotCalled when it was not reached) did
AssessEffects(l, a) ==
    LET stored == a.status = "returned"
        rd == IF stored THEN a.result ELSE risk_data
        msgs == (IF l.raised \/ a.status = "raised" THEN {"err_occurred"} ELSE {})
                \cup (IF ~l.raised /\ ~TruthyText(l.content)
                      THEN {"err_extract_empty"} ELSE {})
                \cup (IF stored /\ ~a.client THEN {"err_api_key"} ELSE {})
                \cup (IF stored /\ a.client /\ a.failed THEN {"err_parse_ai"} ELSE {})
        h == home_page(msgs, rd)
    IN  /\ temp' = l.temp
        /\ original_text' = IF l.raised THEN original_text ELSE l.content
        /\ risk_data' = rd
        /\ full_report_md' = IF stored THEN AbsentReport ELSE full_report_md
        /\ narr_calls' = IF stored THEN 0 ELSE narr_calls
        /\ report_text' = IF stored THEN Absent ELSE report_text
        /\ analysis' = a
        /\ calls' = {"load_docx"}
                    \cup (IF a.status # "not_called" THEN {"analyze_risk"} ELSE {})
                    \cup (IF a.client THEN {"llm_client"} ELSE {})
                    \cup (IF a.invoked THEN {"llm_invoke"} ELSE {})
        /\ shown' = h.shown
        /\ escaped' = h.escaped

\* lines 259-279: the assessment button with a file uploaded
Assess ==
    /\ page = "home"
    /\ \E up \in Uploads, lfault \in LoadFaults :
        LET l == load_docx(temp, up, lfault)
        IN  IF l.raised \/ ~TruthyText(l.content)
            THEN AssessEffects(l, NotCalled)
            ELSE \E afault \in AnalyzeFaults :
                    IF afault # "none" \/ ~api_key
                    THEN AssessEffects(l, analyze_risk(api_key, afault, EmptyList))
                    ELSE \E result \in RiskResults :
                            AssessEffects(l, analyze_risk(api_key, afault, result))
    /\ rendered' = "home"
    /\ UNCHANGED <<page, api_key>>
    /\ Idle

\* lines 307-309, then the run st.rerun() starts: the report page
GenerateFullReport ==
    /\ page = "home"
    /\ TruthyRisks(risk_data)
    /\ ~DataFrameRaises(risk_data)
    /\ ReportRun
    /\ Idle

\* line 319: the callback sets page, then the script runs again
Back ==
    /\ page = "report"
    /\ HomeRun("home")
    /\ Idle

\* load_docx not running, and no narrative call under way
NoUpload == [name |-> "a.docx", bytes |-> "corrupt"]
Unread == "<unread>"

\* the session before its first script run; temp/ empty
InitSession ==
    /\ page = Absent
    /\ original_text = Absent
    /\ risk_data = AbsentRisks
    /\ full_report_md = AbsentReport
    /\ temp = EmptyTemp
    /\ rendered = "none"
    /\ shown = {}
    /\ calls = {}
    /\ escaped = FALSE
    /\ analysis = NotCalled
    /\ narr_calls = 0
    /\ report_text = Absent

InitLoadDocx ==
    /\ pc = <<"idle", "idle">>
    /\ upload = <<NoUpload, NoUpload>>
    /\ handle = <<<<0, 0>>, <<0, 0>>>>
    /\ exc = <<FALSE, FALSE>>
    /\ data = <<"", "">>
    /\ read_bytes = <<Unread, Unread>>
    /\ clobbered = FALSE
    /\ loads = <<0, 0>>

InitNarrative ==
    /\ response = <<>>
    /\ narrative = <<>>
    /\ narr_pc = "idle"

Init ==
    /\ InitSession
    /\ api_key \in BOOLEAN
    /\ InitLoadDocx
    /\ InitNarrative

Next ==
    \/ Healthz
    \/ Rerun
    \/ AssessNoFile
    \/ Assess
    \/ GenerateFullReport
    \/ Back

Spec == Init /\ [][Next]_vars

----------------------------------------------------------------------------
(* load_docx, statement by statement, in two sessions of one process *)

\* Streamlit runs each session's script in its own thread of the one server
\* process: both resolve "temp" against the same working directory
Sessions == {1, 2}

Path(s) == upload[s].name

\* line 58: the session starts load_docx on an uploaded file
LoadBegin(s) ==
    /\ pc[s] \in {"idle", "returned", "raised"}
    /\ loads[s] < MaxLoads
    /\ \E up \in Uploads : upload' = [upload EXCEPT ![s] = up]
    /\ pc' = [pc EXCEPT ![s] = "open"]
    /\ loads' = [loads EXCEPT ![s] = @ + 1]
    /\ exc' = [exc EXCEPT ![s] = FALSE]
    /\ data' = [data EXCEPT ![s] = ""]
    /\ read_bytes' = [read_bytes EXCEPT ![s] = Unread]
    /\ UNCHANGED <<temp, handle, clobbered>>
    /\ UNCHANGED <<ui_vars, narr_vars>>

\* line 63: open(temp_path, "wb") creates the file or truncates the one that
\* is there (the same file, whoever created it); or it raises
LoadOpen(s) ==
    /\ pc[s] = "open"
    /\ \/ /\ temp' = [temp EXCEPT ![Path(s)] =
                        IF @.exists THEN File(@.ino, "") ELSE File(<<s, loads[s]>>, "")]
          /\ handle' = [handle EXCEPT ![s] = temp'[Path(s)].ino]
          /\ pc' = [pc EXCEPT ![s] = "write"]
       \/ /\ pc' = [pc EXCEPT ![s] = "raised"]
          /\ UNCHANGED <<temp, handle>>
    /\ UNCHANGED <<upload, exc, data, read_bytes, clobbered, loads>>
    /\ UNCHANGED <<ui_vars, narr_vars>>

\* the file the session's handle is open on is still the one at its path
Linked(s) == temp[Path(s)].exists /\ temp[Path(s)].ino = handle[s]

\* line 64 and the end of the with block: the bytes go to the file the handle
\* is open on (the last writer's bytes stay); or the write raises part-way,
\* before the try is entered
LoadWrite(s) ==
    /\ pc[s] = "write"
    /\ \/ /\ temp' = IF Linked(s) THEN [temp EXCEPT ![Path(s)].bytes = upload[s].bytes]
                     ELSE temp
          /\ pc' = [pc EXCEPT ![s] = "loader"]
       \/ /\ temp' = IF Linked(s) THEN [temp EXCEPT ![Path(s)].bytes = "partial"]
                     ELSE temp
          /\ pc' = [pc EXCEPT ![s] = "raised"]
    /\ UNCHANGED <<upload, handle, exc, data, read_bytes, clobbered, loads>>
    /\ UNCHANGED <<ui_vars, narr_vars>>

\* line 69: Docx2txtLoader(temp_path) raises when the path is no file
LoadLoader(s) ==
    /\ pc[s] = "loader"
    /\ \/ /\ temp[Path(s)].exists
          /\ pc' = [pc EXCEPT ![s] = "load"]
          /\ UNCHANGED exc
       \/ /\ pc' = [pc EXCEPT ![s] = "exists"]
          /\ exc' = [exc EXCEPT ![s] = TRUE]
    /\ UNCHANGED <<temp, upload, handle, data, read_bytes, clobbered, loads>>
    /\ UNCHANGED <<ui_vars, narr_vars>>

\* line 70: loader.load() reads the file at the path and parses it
LoadLoad(s) ==
    /\ pc[s] = "load"
    /\ IF ~temp[Path(s)].exists
       THEN /\ pc' = [pc EXCEPT ![s] = "exists"]
            /\ exc' = [exc EXCEPT ![s] = TRUE]
            /\ UNCHANGED <<data, read_bytes>>
       ELSE LET b == temp[Path(s)].bytes
            IN  /\ read_bytes' = [read_bytes EXCEPT ![s] = b]
                /\ IF Parse(b).raised
                   THEN /\ pc' = [pc EXCEPT ![s] = "exists"]
                        /\ exc' = [exc EXCEPT ![s] = TRUE]
                        /\ UNCHANGED data
                   ELSE /\ pc' = [pc EXCEPT ![s] = "content"]
                        /\ data' = [data EXCEPT ![s] = Parse(b).text]
                        /\ UNCHANGED exc
    /\ UNCHANGED <<temp, upload, handle, clobbered, loads>>
    /\ UNCHANGED <<ui_vars, narr_vars>>

\* line 71: data[0].page_content, an IndexError on an empty list
LoadContent(s) ==
    /\ pc[s] = "content"
    /\ \/ UNCHANGED exc
       \/ exc' = [exc EXCEPT ![s] = TRUE]
    /\ pc' = [pc EXCEPT ![s] = "exists"]
    /\ UNCHANGED <<temp, upload, handle, data, read_bytes, clobbered, loads>>
    /\ UNCHANGED <<ui_vars, narr_vars>>

\* line 78: os.path.exists(temp_path)
LoadExists(s) ==
    /\ pc[s] = "exists"
    /\ pc' = [pc EXCEPT ![s] = IF temp[Path(s)].exists THEN "remove" ELSE "end"]
    /\ UNCHANGED <<temp, upload, handle, exc, data, read_bytes, clobbered, loads>>
    /\ UNCHANGED <<ui_vars, narr_vars>>

\* another session has written or is writing the file at p and has not read it yet
InUseByOther(s, p) ==
    \E t \in Sessions \ {s} : upload[t].name = p /\ pc[t] \in {"write", "loader", "load"}

\* line 79: os.remove(temp_path), FileNotFoundError when the file is gone
LoadRemove(s) ==
    /\ pc[s] = "remove"
    /\ IF temp[Path(s)].exists
       THEN /\ temp' = [temp EXCEPT ![Path(s)] = NoFile]
            /\ clobbered' = (clobbered \/ InUseByOther(s, Path(s)))
            /\ pc' = [pc EXCEPT ![s] = "end"]
            /\ UNCHANGED exc
       ELSE /\ exc' = [exc EXCEPT ![s] = TRUE]
            /\ pc' = [pc EXCEPT ![s] = "end"]
            /\ UNCHANGED <<temp, clobbered>>
    /\ UNCHANGED <<upload, handle, data, read_bytes, loads>>
    /\ UNCHANGED <<ui_vars, narr_vars>>

\* lines 75 and 82: the pending exception is re-raised, or content is returned
LoadEnd(s) ==
    /\ pc[s] = "end"
    /\ pc' = [pc EXCEPT ![s] = IF exc[s] THEN "raised" ELSE "returned"]
    /\ UNCHANGED <<temp, upload, handle, exc, data, read_bytes, clobbered, loads>>
    /\ UNCHANGED <<ui_vars, narr_vars>>

LoadNext ==
    \E s \in Sessions :
        \/ LoadBegin(s)
        \/ LoadOpen(s)
        \/ LoadWrite(s)
        \/ LoadLoader(s)
        \/ LoadLoad(s)
        \/ LoadContent(s)
        \/ LoadExists(s)
        \/ LoadRemove(s)
        \/ LoadEnd(s)

InitLoad ==
    /\ InitSession
    /\ api_key = TRUE
    /\ InitLoadDocx
    /\ InitNarrative

SpecLoad == InitLoad /\ [][LoadNext]_vars

----------------------------------------------------------------------------
(* generate_report_narrative on every raw response *)

InitStrip ==
    /\ InitSession
    /\ api_key = TRUE
    /\ InitLoadDocx
    /\ response \in Responses
    /\ narrative = <<>>
    /\ narr_pc = "idle"

\* lines 173-177: the chain returns response; the fences are stripped
NarrativeReturns ==
    /\ narr_pc = "idle"
    /\ narrative' = generate_report_narrative(response, "none").value
    /\ narr_pc' = "returned"
    /\ UNCHANGED <<response, ui_vars, temp, load_vars>>

\* lines 178-180: chain.invoke raises; the placeholder is returned
NarrativeFails ==
    /\ narr_pc = "idle"
    /\ narrative' = generate_report_narrative(response, "call").value
    /\ narr_pc' = "failed"
    /\ UNCHANGED <<response, ui_vars, temp, load_vars>>

StripNext == NarrativeReturns \/ NarrativeFails

SpecStrip == InitStrip /\ [][StripNext]_vars

----------------------------------------------------------------------------
(* Claims about one session (Spec) *)

\* C1: the narrative generator is invoked at most once per risk_data snapshot
\* (narr_calls counts the invocations since risk_data was last assigned).
C1_NarrativeOncePerSnapshot == narr_calls <= 1

\* C2: after an assessment with a document uploaded, no full_report_md remains
\* and risk_data is that assessment's analysis result. Stated in the weaker form
\* the claim implies: risk_data is this run's result, or still None.
C2_AssessOverwrites ==
    "load_docx" \in calls =>
        /\ full_report_md.kind = "absent"
        /\ \/ analysis.status = "returned" /\ risk_data = analysis.result
           \/ risk_data.kind = "none"

\* C3: no failure of an external call leaves the page render that made the
\* call: no script run ends with an exception escaping main().
C3_NoFailureEscapes == escaped = FALSE

\* C4: after load_docx has returned or raised, no temporary file exists.
C4_TempFileRemoved == \A n \in Names : ~temp[n].exists

\* C5: analyze_risk never raises; without a credential it returns [] with no
\* client built and no model call; on every failure it returns [].
C5_AnalyzeNeverRaises ==
    /\ analysis.status # "raised"
    /\ (analysis.status = "returned" /\ ~api_key) =>
            ~analysis.client /\ ~analysis.invoked /\ analysis.result = EmptyList
    /\ analysis.failed => analysis.result = EmptyList

\* C6: whenever page = report, risk_data is non-empty and a render of the
\* report page does not show the "No data available" error.
C6_ReportHasData ==
    page = "report" =>
        /\ TruthyRisks(risk_data)
        /\ rendered = "report" => "err_no_data" \notin shown

\* C9: a healthz request writes "OK", invokes nothing and leaves page,
\* original_text, risk_data, full_report_md (and temp/) as they were, absent
\* keys included.
C9_HealthzOnlyOK ==
    [][rendered' = "healthz" =>
          /\ shown' = {"OK"}
          /\ calls' = {}
          /\ UNCHANGED <<page, original_text, risk_data, full_report_md, temp>>]_vars

\* C9 witness: a healthz request answered while the session holds a report
C9_Witness ==
    /\ rendered = "healthz"
    /\ shown = {"OK"}
    /\ page = "report"
    /\ full_report_md.kind = "str"

\* C10: a full_report_md shown on the report page was assembled from the
\* original_text and risk_data now in session state.
C10_ReportMatchesSession ==
    (rendered = "report" /\ "report" \in shown) =>
        /\ report_text = original_text
        /\ full_report_md.table = risk_data.items

----------------------------------------------------------------------------
(* Claims about concurrent sessions (SpecLoad) *)

\* C7: with two sessions in load_docx at once, each session's parser reads
\* exactly the bytes that session wrote, and no session's cleanup removes a
\* file another session is still using.
C7_SessionsIsolated ==
    /\ ~clobbered
    /\ \A s \in Sessions : read_bytes[s] # Unread => read_bytes[s] = upload[s].bytes

----------------------------------------------------------------------------
(* Claims about fence stripping (SpecStrip) *)

\* C8: whatever the raw response, the narrative generate_report_narrative
\* returns holds no three consecutive backticks.
C8_NoFenceLeft == narr_pc # "idle" => ~HasFence(narrative)

\* C8 witness: removing the fence-plus-markdown opener joins a backtick before
\* it with two after it into a new fence, which the second replace removes
C8_Witness ==
    /\ narr_pc = "returned"
    /\ response = <<BT, BT, BT, BT, MD, BT, BT>>
    /\ HasFence(Replace(response, FenceMarkdown))
    /\ narrative = <<>>

====
